---- MODULE Spec2Model ----
(***************************************************************************)
(* A model of the sanskriti interpreter front end:                         *)
(*   - src/src/interpreter.rs : Value, Env, Interpreter::exec / eval_expr  *)
(*   - src/src/translator.rs  : translate_file_contents                    *)
(*   - src/src/main.rs        : the tokenize / parse / run commands        *)
(*                                                                         *)
(* f64 is modelled as a small binary fixed-point format with the IEEE-754  *)
(* special values: a sign, a magnitude counted in quanta of 2^-FracBits,   *)
(* signed zeros, signed infinities (every finite result above F64Max       *)
(* overflows to an infinity, as f64 does above f64::MAX) and one NaN.      *)
(* Results that do not fall on the grid are rounded to nearest, ties to    *)
(* even.  Strings are sequences of one-character strings.                  *)
(***************************************************************************)
EXTENDS Integers, Sequences, FiniteSets, TLC

VARIABLES
    env,         \* Interpreter.env.vars : name -> Value
    out,         \* the lines println! wrote to standard output
    stack,       \* the pending exec calls of the interpreter (top first)
    program,     \* eval_program: the statements and the index of the next one
    whileStats,  \* per run: loop-top evaluations of while conditions / body runs
    lastWritten, \* name -> the last value Env::define / Env::assign was called with
    evalNode,    \* the expression last evaluated by an expression statement
    evalEnv,     \* the environment that evaluation started from
    evalVal,     \* the value that evaluation returned
    evalLog,     \* the calls of Env::assign that evaluation made, in order
    mode,        \* the command of main: "tokenize" | "parse" | "run"
    pc,          \* the position of main
    contents,    \* file_contents: what fs::read_to_string returned
    pending,     \* translate: the table entries the HashMap has still to yield
    output,      \* translate: the text being rewritten
    fed,         \* the text handed to Lexer::new / Parser::new
    stream,      \* tokenize: the results the Lexer yields and the index of the next one
    printed,     \* tokenize: the lines written to standard output
    errs,        \* tokenize: the number of errors reported on standard error
    any_cc_err,  \* tokenize: main's flag
    exitCode     \* the process exit status (-1 while running)

interpVars == <<env, out, stack, program, whileStats, lastWritten>>
evalVars == <<evalNode, evalEnv, evalVal, evalLog>>
mainVars == <<mode, pc, contents, pending, output, fed>>
tokVars == <<stream, printed, errs, any_cc_err, exitCode>>
vars == <<interpVars, evalVars, mainVars, tokVars>>

(***************************************************************************)
(* Bounds of the model.                                                    *)
(***************************************************************************)
FracBits == 1
F64Max == 4
MaxStrLen == 5
MaxStream == 4

(***************************************************************************)
(* f64                                                                     *)
(***************************************************************************)
RECURSIVE Pow(_, _)
Pow(b, e) == IF e = 0 THEN 1 ELSE b * Pow(b, e - 1)

Quantum == Pow(2, FracBits)
MaxMag == F64Max * Quantum

Fin(neg, mag) == [cls |-> "fin", neg |-> neg, mag |-> mag]
Inf(neg) == [cls |-> "inf", neg |-> neg, mag |-> 0]
NaN == [cls |-> "nan", neg |-> FALSE, mag |-> 0]

F64 == {Fin(s, m) : s \in BOOLEAN, m \in 0..MaxMag} \cup {Inf(TRUE), Inf(FALSE), NaN}

\* An integer literal n >= 0 as an f64.
Lit(n) == Fin(FALSE, n * Quantum)

IsNaN(a) == a.cls = "nan"
IsZero(a) == a.cls = "fin" /\ a.mag = 0

\* Round p / d (p >= 0, d > 0) to the nearest integer, ties to even.
RoundDiv(p, d) ==
    LET q == p \div d
        r == p % d
    IN  IF 2 * r < d THEN q
        ELSE IF 2 * r > d THEN q + 1
        ELSE IF q % 2 = 0 THEN q ELSE q + 1

\* The f64 nearest to the exact magnitude p / d quanta with the given sign.
Rounded(neg, p, d) ==
    LET m == RoundDiv(p, d)
    IN  IF m > MaxMag THEN Inf(neg) ELSE Fin(neg, m)

\* The signed number of quanta of a finite f64.
Signed(a) == IF a.neg THEN 0 - a.mag ELSE a.mag

\* The position of a non-NaN f64 on the extended number line.
Rank(a) ==
    IF a.cls = "inf" THEN (IF a.neg THEN 0 - (MaxMag + 1) ELSE MaxMag + 1)
    ELSE Signed(a)

F64Neg(a) == IF IsNaN(a) THEN NaN ELSE [a EXCEPT !.neg = ~a.neg]

F64Add(a, b) ==
    IF IsNaN(a) \/ IsNaN(b) THEN NaN
    ELSE IF a.cls = "inf" /\ b.cls = "inf" THEN (IF a.neg = b.neg THEN a ELSE NaN)
    ELSE IF a.cls = "inf" THEN a
    ELSE IF b.cls = "inf" THEN b
    ELSE LET s == Signed(a) + Signed(b)
         IN  IF s = 0 THEN Fin(a.neg /\ b.neg, 0)
             ELSE IF s < 0 THEN Rounded(TRUE, 0 - s, 1)
             ELSE Rounded(FALSE, s, 1)

F64Sub(a, b) == F64Add(a, F64Neg(b))

F64Mul(a, b) ==
    IF IsNaN(a) \/ IsNaN(b) THEN NaN
    ELSE IF a.cls = "inf" \/ b.cls = "inf"
         THEN (IF IsZero(a) \/ IsZero(b) THEN NaN ELSE Inf(a.neg # b.neg))
    ELSE Rounded(a.neg # b.neg, a.mag * b.mag, Quantum)

F64Div(a, b) ==
    IF IsNaN(a) \/ IsNaN(b) THEN NaN
    ELSE IF a.cls = "inf" THEN (IF b.cls = "inf" THEN NaN ELSE Inf(a.neg # b.neg))
    ELSE IF b.cls = "inf" THEN Fin(a.neg # b.neg, 0)
    ELSE IF IsZero(b) THEN (IF IsZero(a) THEN NaN ELSE Inf(a.neg # b.neg))
    ELSE Rounded(a.neg # b.neg, a.mag * Quantum, b.mag)

\* The comparisons of f64 (PartialOrd / PartialEq): false whenever a NaN is
\* involved, and -0.0 == 0.0.
F64Eq(a, b) == ~IsNaN(a) /\ ~IsNaN(b) /\ Rank(a) = Rank(b)
F64Lt(a, b) == ~IsNaN(a) /\ ~IsNaN(b) /\ Rank(a) < Rank(b)
F64Le(a, b) == ~IsNaN(a) /\ ~IsNaN(b) /\ Rank(a) <= Rank(b)

\* f64::trunc
F64Trunc(a) == IF a.cls = "fin" THEN Fin(a.neg, (a.mag \div Quantum) * Quantum) ELSE a

(***************************************************************************)
(* Text                                                                    *)
(***************************************************************************)
DigitChars == <<"0", "1", "2", "3", "4", "5", "6", "7", "8", "9">>

RECURSIVE NatDigits(_)
NatDigits(n) ==
    IF n < 10 THEN <<DigitChars[n + 1]>>
    ELSE NatDigits(n \div 10) \o <<DigitChars[(n % 10) + 1]>>

\* n written with exactly w digits (leading zeros).
RECURSIVE PadDigits(_, _)
PadDigits(n, w) ==
    IF w = 0 THEN <<>> ELSE PadDigits(n \div 10, w - 1) \o <<DigitChars[(n % 10) + 1]>>

RECURSIVE StripZeros(_)
StripZeros(s) ==
    IF Len(s) > 0 /\ s[Len(s)] = "0" THEN StripZeros(SubSeq(s, 1, Len(s) - 1)) ELSE s

\* <f64 as Display>::fmt: the shortest decimal form; "NaN", "inf", "-inf".
F64ToString(a) ==
    IF a.cls = "nan" THEN <<"N", "a", "N">>
    ELSE LET sign == IF a.neg THEN <<"-">> ELSE <<>>
         IN  IF a.cls = "inf" THEN sign \o <<"i", "n", "f">>
             ELSE LET whole == a.mag \div Quantum
                      frac == a.mag % Quantum
                  IN  sign \o NatDigits(whole) \o
                      (IF frac = 0 THEN <<>>
                       ELSE <<".">> \o StripZeros(PadDigits(frac * Pow(5, FracBits), FracBits)))

(***************************************************************************)
(* Value                                                                   *)
(***************************************************************************)
Nil == [t |-> "Nil"]
Bool(b) == [t |-> "Bool", b |-> b]
Number(n) == [t |-> "Number", n |-> n]
String(s) == [t |-> "String", s |-> s]

is_truthy(v) ==
    CASE v.t = "Nil" -> FALSE
      [] v.t = "Bool" -> v.b
      [] OTHER -> TRUE

to_display(v) ==
    CASE v.t = "Nil" -> <<"n", "i", "l">>
      [] v.t = "Number" ->
            IF F64Eq(v.n, F64Trunc(v.n)) THEN F64ToString(v.n) \o <<".", "0">>
            ELSE F64ToString(v.n)
      [] v.t = "Bool" -> (IF v.b THEN <<"t", "r", "u", "e">> ELSE <<"f", "a", "l", "s", "e">>)
      [] OTHER -> v.s

(***************************************************************************)
(* Env                                                                     *)
(***************************************************************************)
EmptyEnv == [n \in {} |-> Nil]

\* EnvDefine keeping a binding that is already there.
EnvDefineKeepFirst(e, name, value) ==
    [n \in DOMAIN e \cup {name} |-> IF n \in DOMAIN e THEN e[n] ELSE value]

EnvDefine(e, name, value) ==
    [n \in DOMAIN e \cup {name} |-> IF n = name THEN value ELSE e[n]]

EnvAssign(e, name, value) ==
    IF name \in DOMAIN e THEN [e EXCEPT ![name] = value]
    ELSE EnvDefine(e, name, value)

EnvGet(e, name) == IF name \in DOMAIN e THEN e[name] ELSE Nil

(***************************************************************************)
(* TokenTree                                                               *)
(***************************************************************************)
AtomNil == [tt |-> "Atom", atom |-> "Nil"]
AtomThis == [tt |-> "Atom", atom |-> "This"]
AtomSuper == [tt |-> "Atom", atom |-> "Super"]
AtomNumber(n) == [tt |-> "Atom", atom |-> "Number", lit |-> n]
AtomBool(b) == [tt |-> "Atom", atom |-> "Bool", lit |-> b]
AtomString(s) == [tt |-> "Atom", atom |-> "String", lit |-> s]
AtomIdent(name) == [tt |-> "Atom", atom |-> "Ident", lit |-> name]
Cons(op, children) == [tt |-> "Cons", op |-> op, children |-> children]
\* no is <<>> for None and <<branch>> for Some(branch).
IfNode(condition, yes, no) == [tt |-> "If", condition |-> condition, yes |-> yes, no |-> no]
FunNode == [tt |-> "Fun"]
CallNode == [tt |-> "Call"]

IsIdent(node) == node.tt = "Atom" /\ node.atom = "Ident"

(***************************************************************************)
(* Interpreter::eval_expr, operator by operator on evaluated operands      *)
(***************************************************************************)
\* PlusValues without the arm that coerces a non-string left operand.
PlusValuesNoLeftCoercion(a, b) ==
    CASE a.t = "Number" /\ b.t = "Number" -> Number(F64Add(a.n, b.n))
      [] a.t = "String" /\ b.t = "String" -> String(a.s \o b.s)
      [] a.t = "String" /\ b.t # "String" -> String(a.s \o to_display(b))
      [] OTHER -> Nil

PlusValues(a, b) ==
    CASE a.t = "Number" /\ b.t = "Number" -> Number(F64Add(a.n, b.n))
      [] a.t = "String" /\ b.t = "String" -> String(a.s \o b.s)
      [] a.t = "String" /\ b.t # "String" -> String(a.s \o to_display(b))
      [] a.t # "String" /\ b.t = "String" -> String(to_display(a) \o b.s)
      [] OTHER -> Nil

MinusValues(a, b) ==
    IF a.t = "Number" /\ b.t = "Number" THEN Number(F64Sub(a.n, b.n)) ELSE Nil

StarValues(a, b) ==
    IF a.t = "Number" /\ b.t = "Number" THEN Number(F64Mul(a.n, b.n)) ELSE Nil

\* SlashValues without the arm for a zero divisor.
SlashValuesUnchecked(a, b) ==
    IF a.t = "Number" /\ b.t = "Number" THEN Number(F64Div(a.n, b.n)) ELSE Nil

\* The pattern Value::Number(0.0) matches by ==, so it matches -0.0 too.
SlashValues(a, b) ==
    CASE a.t = "Number" /\ b.t = "Number" /\ F64Eq(b.n, Lit(0)) -> Nil
      [] a.t = "Number" /\ b.t = "Number" /\ ~F64Eq(b.n, Lit(0)) -> Number(F64Div(a.n, b.n))
      [] OTHER -> Nil

LessValues(a, b) == Bool(a.t = "Number" /\ b.t = "Number" /\ F64Lt(a.n, b.n))
LessEqualValues(a, b) == Bool(a.t = "Number" /\ b.t = "Number" /\ F64Le(a.n, b.n))
GreaterValues(a, b) == Bool(a.t = "Number" /\ b.t = "Number" /\ F64Lt(b.n, a.n))
GreaterEqualValues(a, b) == Bool(a.t = "Number" /\ b.t = "Number" /\ F64Le(b.n, a.n))

\* EqualValues comparing Nil and Bool operands by truthiness.
EqualValuesByTruthiness(a, b) ==
    CASE a.t \in {"Nil", "Bool"} /\ b.t \in {"Nil", "Bool"} -> is_truthy(a) = is_truthy(b)
      [] a.t = "Number" /\ b.t = "Number" -> F64Eq(a.n, b.n)
      [] a.t = "String" /\ b.t = "String" -> a.s = b.s
      [] OTHER -> FALSE

\* The local `equal` of the EqualEqual arm.
EqualValues(a, b) ==
    CASE a.t = "Nil" /\ b.t = "Nil" -> TRUE
      [] a.t = "Bool" /\ b.t = "Bool" -> a.b = b.b
      [] a.t = "Number" /\ b.t = "Number" -> F64Eq(a.n, b.n)
      [] a.t = "String" /\ b.t = "String" -> a.s = b.s
      [] OTHER -> FALSE

\* The arms that evaluate both operands and combine the two values.
StrictOps == {"Plus", "Minus", "Star", "Slash", "Less", "LessEqual",
              "Greater", "GreaterEqual", "EqualEqual"}

ApplyStrict(op, a, b) ==
    CASE op = "Plus" -> PlusValues(a, b)
      [] op = "Minus" -> MinusValues(a, b)
      [] op = "Star" -> StarValues(a, b)
      [] op = "Slash" -> SlashValues(a, b)
      [] op = "Less" -> LessValues(a, b)
      [] op = "LessEqual" -> LessEqualValues(a, b)
      [] op = "Greater" -> GreaterValues(a, b)
      [] op = "GreaterEqual" -> GreaterEqualValues(a, b)
      [] op = "EqualEqual" -> Bool(EqualValues(a, b))

(***************************************************************************)
(* Interpreter::eval_expr.  The result is the returned Value, the          *)
(* environment afterwards, and the calls of Env::assign made, in order.    *)
(***************************************************************************)
Result(val, e, log) == [val |-> val, env |-> e, log |-> log]

AtomValue(node, e) ==
    CASE node.atom = "Number" -> Number(node.lit)
      [] node.atom = "Bool" -> Bool(node.lit)
      [] node.atom = "Nil" -> Nil
      [] node.atom = "String" -> String(node.lit)
      [] node.atom = "Ident" -> EnvGet(e, node.lit)
      [] OTHER -> Nil

RECURSIVE eval_expr(_, _)

\* EvalOperands evaluating rhs first.
EvalOperandsRightFirst(lhs, rhs, e) ==
    LET r == eval_expr(rhs, e)
        l == eval_expr(lhs, r.env)
    IN  [a |-> l.val, b |-> r.val, env |-> l.env, log |-> r.log \o l.log]

\* (self.eval_expr(lhs), self.eval_expr(rhs)): lhs first, then rhs in the
\* environment lhs left behind.
EvalOperands(lhs, rhs, e) ==
    LET l == eval_expr(lhs, e)
        r == eval_expr(rhs, l.env)
    IN  [a |-> l.val, b |-> r.val, env |-> r.env, log |-> l.log \o r.log]

EvalStrict(op, lhs, rhs, e) ==
    LET p == EvalOperands(lhs, rhs, e)
    IN  Result(ApplyStrict(op, p.a, p.b), p.env, p.log)

EvalBangEqual(lhs, rhs, e) ==
    LET r == eval_expr(Cons("EqualEqual", <<lhs, rhs>>), e)
    IN  IF r.val.t = "Bool" THEN Result(Bool(~r.val.b), r.env, r.log)
        ELSE Result(Bool(FALSE), r.env, r.log)

\* EvalAnd evaluating rhs before it looks at the left value.
EvalAndEager(lhs, rhs, e) ==
    LET left == eval_expr(lhs, e)
        right == eval_expr(rhs, left.env)
    IN  IF ~is_truthy(left.val) THEN Result(left.val, right.env, left.log \o right.log)
        ELSE Result(right.val, right.env, left.log \o right.log)

EvalAnd(lhs, rhs, e) ==
    LET left == eval_expr(lhs, e)
    IN  IF ~is_truthy(left.val) THEN left
        ELSE LET right == eval_expr(rhs, left.env)
             IN  Result(right.val, right.env, left.log \o right.log)

EvalOr(lhs, rhs, e) ==
    LET left == eval_expr(lhs, e)
    IN  IF is_truthy(left.val) THEN left
        ELSE LET right == eval_expr(rhs, left.env)
             IN  Result(right.val, right.env, left.log \o right.log)

EvalAssign(name, expr, e) ==
    LET r == eval_expr(expr, e)
    IN  Result(r.val, EnvAssign(r.env, name, r.val), r.log \o <<<<name, r.val>>>>)

EvalUnaryMinus(expr, e) ==
    LET r == eval_expr(expr, e)
    IN  Result(IF r.val.t = "Number" THEN Number(F64Neg(r.val.n)) ELSE Nil, r.env, r.log)

EvalBang(expr, e) ==
    LET r == eval_expr(expr, e)
    IN  Result(Bool(~is_truthy(r.val)), r.env, r.log)

EvalCons(op, ch, e) ==
    CASE op = "Group" ->
            (IF Len(ch) > 0 THEN eval_expr(ch[1], e) ELSE Result(Nil, e, <<>>))
      [] op = "Minus" /\ Len(ch) = 1 -> EvalUnaryMinus(ch[1], e)
      [] op = "Bang" /\ Len(ch) = 1 -> EvalBang(ch[1], e)
      [] op = "Assign" /\ Len(ch) = 2 /\ IsIdent(ch[1]) -> EvalAssign(ch[1].lit, ch[2], e)
      [] op \in StrictOps /\ Len(ch) = 2 -> EvalStrict(op, ch[1], ch[2], e)
      [] op = "BangEqual" /\ Len(ch) = 2 -> EvalBangEqual(ch[1], ch[2], e)
      [] op = "And" /\ Len(ch) = 2 -> EvalAnd(ch[1], ch[2], e)
      [] op = "Or" /\ Len(ch) = 2 -> EvalOr(ch[1], ch[2], e)
      [] OTHER -> Result(Nil, e, <<>>)

eval_expr(node, e) ==
    CASE node.tt = "Atom" -> Result(AtomValue(node, e), e, <<>>)
      [] node.tt = "Cons" -> EvalCons(node.op, node.children, e)
      [] OTHER -> Result(Nil, e, <<>>)

(***************************************************************************)
(* Interpreter::exec and Interpreter::eval_program.  The recursion of exec *)
(* is kept as a stack of frames: the statement to execute, its nesting     *)
(* depth, whether it is the body of a while loop, and where it stands      *)
(* ("enter": not started, "loop": a while that has run its body, "ret":    *)
(* an expression statement about to return).                               *)
(***************************************************************************)
MaxIter == 8

Frame(node, depth, role) == [node |-> node, depth |-> depth, role |-> role, st |-> "enter"]

NoNode == [tt |-> "None"]

StmtKind(node) ==
    CASE node.tt = "Cons" /\ node.op = "Group" -> "Group"
      [] node.tt = "If" -> "If"
      [] node.tt = "Cons" /\ node.op = "Var" -> "Var"
      [] node.tt = "Cons" /\ node.op = "Print" -> "Print"
      [] node.tt = "Cons" /\ node.op = "While" -> "While"
      [] OTHER -> "other"

\* lastWritten after the given calls of Env::define / Env::assign.
RECURSIVE ApplyLog(_, _, _)
ApplyLog(lw, log, depth) ==
    IF log = <<>> THEN lw
    ELSE LET name == log[1][1]
             rec == [val |-> log[1][2], depth |-> depth, over |-> name \in DOMAIN lw]
         IN  ApplyLog([n \in DOMAIN lw \cup {name} |-> IF n = name THEN rec ELSE lw[n]],
                      Tail(log), depth)

\* A frame that is a loop body starts executing: one more run of the body.
BodyRuns(top) == IF top.role = "body" /\ top.st = "enter" THEN 1 ELSE 0

Starts(kind) == stack # <<>> /\ stack[1].st # "ret" /\ StmtKind(stack[1].node) = kind

ExecGroup ==
    /\ Starts("Group")
    /\ LET top == stack[1]
           ch == top.node.children
       IN  /\ stack' = [i \in 1..Len(ch) |-> Frame(ch[i], top.depth + 1, "stmt")] \o Tail(stack)
           /\ whileStats' = [whileStats EXCEPT !.body = @ + BodyRuns(top)]
    /\ UNCHANGED <<env, out, program, lastWritten, evalVars, mainVars, tokVars>>

ExecIf ==
    /\ Starts("If")
    /\ LET top == stack[1]
       IN  \E r \in {eval_expr(top.node.condition, env)} :
           /\ env' = r.env
           /\ lastWritten' = ApplyLog(lastWritten, r.log, top.depth)
           /\ stack' = IF is_truthy(r.val)
                       THEN <<Frame(top.node.yes, top.depth + 1, "stmt")>> \o Tail(stack)
                       ELSE IF top.node.no # <<>>
                       THEN <<Frame(top.node.no[1], top.depth + 1, "stmt")>> \o Tail(stack)
                       ELSE Tail(stack)
           /\ whileStats' = [whileStats EXCEPT !.body = @ + BodyRuns(top)]
    /\ UNCHANGED <<out, program, evalVars, mainVars, tokVars>>

ExecVar ==
    /\ Starts("Var")
    /\ LET top == stack[1]
           ch == top.node.children
       IN  /\ IF Len(ch) = 2 /\ IsIdent(ch[1])
              THEN \E r \in {eval_expr(ch[2], env)} :
                       /\ env' = EnvDefine(r.env, ch[1].lit, r.val)
                       /\ lastWritten' = ApplyLog(lastWritten,
                                                  r.log \o <<<<ch[1].lit, r.val>>>>, top.depth)
              ELSE UNCHANGED <<env, lastWritten>>
           /\ stack' = Tail(stack)
           /\ whileStats' = [whileStats EXCEPT !.body = @ + BodyRuns(top)]
    /\ UNCHANGED <<out, program, evalVars, mainVars, tokVars>>

ExecPrint ==
    /\ Starts("Print")
    /\ LET top == stack[1]
           ch == top.node.children
       IN  /\ IF Len(ch) = 1
              THEN \E r \in {eval_expr(ch[1], env)} :
                       /\ env' = r.env
                       /\ lastWritten' = ApplyLog(lastWritten, r.log, top.depth)
                       /\ out' = Append(out, to_display(r.val))
              ELSE UNCHANGED <<env, lastWritten, out>>
           /\ stack' = Tail(stack)
           /\ whileStats' = [whileStats EXCEPT !.body = @ + BodyRuns(top)]
    /\ UNCHANGED <<program, evalVars, mainVars, tokVars>>

\* ExecWhile with `if` for `while`: the loop is left after one run of the body.
ExecWhileOnce ==
    /\ Starts("While")
    /\ LET top == stack[1]
           ch == top.node.children
       IN  /\ Len(ch) = 2
           /\ \E r \in {eval_expr(ch[1], env)} :
                   /\ env' = r.env
                   /\ lastWritten' = ApplyLog(lastWritten, r.log, top.depth)
                   /\ stack' = IF is_truthy(r.val)
                               THEN <<Frame(ch[2], top.depth + 1, "body")>> \o Tail(stack)
                               ELSE Tail(stack)
                   /\ whileStats' =
                         [entered |-> whileStats.entered + 1,
                          truthy |-> whileStats.truthy + (IF is_truthy(r.val) THEN 1 ELSE 0),
                          falsy |-> whileStats.falsy + (IF is_truthy(r.val) THEN 0 ELSE 1),
                          body |-> whileStats.body + BodyRuns(top)]
    /\ UNCHANGED <<out, program, evalVars, mainVars, tokVars>>

\* One evaluation of the loop condition: the body is pushed above the loop
\* when it is truthy, the loop is left when it is not.
ExecWhile ==
    /\ Starts("While")
    /\ LET top == stack[1]
           ch == top.node.children
           entered == IF top.st = "enter" THEN 1 ELSE 0
       IN  IF Len(ch) = 2
           THEN \E r \in {eval_expr(ch[1], env)} :
                    /\ is_truthy(r.val) => whileStats.truthy < MaxIter
                    /\ env' = r.env
                    /\ lastWritten' = ApplyLog(lastWritten, r.log, top.depth)
                    /\ stack' = IF is_truthy(r.val)
                                THEN <<Frame(ch[2], top.depth + 1, "body"),
                                       [top EXCEPT !.st = "loop"]>> \o Tail(stack)
                                ELSE Tail(stack)
                    /\ whileStats' =
                          [entered |-> whileStats.entered + entered,
                           truthy |-> whileStats.truthy + (IF is_truthy(r.val) THEN 1 ELSE 0),
                           falsy |-> whileStats.falsy + (IF is_truthy(r.val) THEN 0 ELSE 1),
                           body |-> whileStats.body + BodyRuns(top)]
           ELSE /\ stack' = Tail(stack)
                /\ whileStats' = [whileStats EXCEPT !.body = @ + BodyRuns(top)]
                /\ UNCHANGED <<env, lastWritten>>
    /\ UNCHANGED <<out, program, evalVars, mainVars, tokVars>>

\* other => { let _ = self.eval_expr(other); }
ExecOther ==
    /\ Starts("other")
    /\ LET top == stack[1]
       IN  \E r \in {eval_expr(top.node, env)} :
           /\ env' = r.env
           /\ lastWritten' = ApplyLog(lastWritten, r.log, top.depth)
           /\ evalNode' = top.node
           /\ evalEnv' = env
           /\ evalVal' = r.val
           /\ evalLog' = r.log
           /\ stack' = <<[top EXCEPT !.st = "ret"]>> \o Tail(stack)
           /\ whileStats' = [whileStats EXCEPT !.body = @ + BodyRuns(top)]
    /\ UNCHANGED <<out, program, mainVars, tokVars>>

\* The expression statement returns; its value is dropped.
Return ==
    /\ stack # <<>> /\ stack[1].st = "ret"
    /\ stack' = Tail(stack)
    /\ evalNode' = NoNode
    /\ evalEnv' = EmptyEnv
    /\ evalVal' = Nil
    /\ evalLog' = <<>>
    /\ UNCHANGED <<env, out, program, whileStats, lastWritten, mainVars, tokVars>>

\* eval_program: for stmt in stmts { self.exec(stmt) }
NextStmt ==
    /\ stack = <<>> /\ program.next <= Len(program.stmts)
    /\ stack' = <<Frame(program.stmts[program.next], 0, "stmt")>>
    /\ program' = [program EXCEPT !.next = @ + 1]
    /\ UNCHANGED <<env, out, whileStats, lastWritten, evalVars, mainVars, tokVars>>

Done == stack = <<>> /\ program.next > Len(program.stmts)

(***************************************************************************)
(* The parts of the state a specification does not use stay as they start. *)
(***************************************************************************)
InitInterp ==
    /\ env = EmptyEnv
    /\ out = <<>>
    /\ stack = <<>>
    /\ whileStats = [entered |-> 0, truthy |-> 0, falsy |-> 0, body |-> 0]
    /\ lastWritten = [n \in {} |-> Nil]
    /\ evalNode = NoNode
    /\ evalEnv = EmptyEnv
    /\ evalVal = Nil
    /\ evalLog = <<>>

InitMainIdle ==
    /\ mode = "none"
    /\ pc = "idle"
    /\ contents = <<>>
    /\ pending = {}
    /\ output = <<>>
    /\ fed = <<>>

InitTokIdle ==
    /\ stream = [items |-> <<>>, next |-> 1]
    /\ printed = <<>>
    /\ errs = 0
    /\ any_cc_err = FALSE
    /\ exitCode = -1

(***************************************************************************)
(* SpecEval: a program of expression statements, chosen one statement at a *)
(* time from ExprInputs, run by eval_program on a fresh Interpreter.        *)
(***************************************************************************)
X == AtomIdent("x")

Leaves ==
    {AtomNil, AtomBool(TRUE), AtomBool(FALSE), AtomNumber(Lit(0)), AtomNumber(Lit(1)),
     AtomString(<<"a">>), X}

\* Operands with a side effect.
Effects ==
    {Cons("Assign", <<X, AtomNumber(Lit(1))>>),
     Cons("Assign", <<X, Cons("Plus", <<X, AtomNumber(Lit(1))>>)>>)}

Operands == Leaves \cup Effects

BinaryOps == StrictOps \cup {"BangEqual", "And", "Or"}

Binaries == {Cons(op, <<l, r>>) : op \in BinaryOps, l \in Operands, r \in Operands}

Stores ==
    {Cons("Assign", <<X, Cons(op, <<l, r>>)>>) :
        op \in {"Plus", "Minus", "Star", "Slash"}, l \in Leaves, r \in Leaves}

Others ==
    {Cons("Bang", <<X>>), Cons("Minus", <<X>>), Cons("Plus", <<X>>),
     Cons("Assign", <<AtomNumber(Lit(1)), X>>), AtomThis, AtomSuper, FunNode, CallNode,
     Cons("Assign", <<X, Cons("Group", <<>>)>>)}

ExprInputs == Leaves \cup Binaries \cup Stores \cup Others

StrOK(v) == v.t = "String" => Len(v.s) <= MaxStrLen

WithinBounds(r) == StrOK(r.val) /\ \A n \in DOMAIN r.env : StrOK(r.env[n])

\* eval_program takes the next statement of the program.
Feed ==
    /\ stack = <<>>
    /\ \E node \in ExprInputs :
          /\ WithinBounds(eval_expr(node, env))
          /\ stack' = <<Frame(node, 0, "stmt")>>
    /\ UNCHANGED <<env, out, program, whileStats, lastWritten, evalVars, mainVars, tokVars>>

InitEval == InitInterp /\ program = [stmts |-> <<>>, next |-> 1] /\ InitMainIdle /\ InitTokIdle

NextEval == Feed \/ ExecOther \/ Return

SpecEval == InitEval /\ [][NextEval]_vars

(***************************************************************************)
(* What the last expression statement evaluated: a binary node's operands  *)
(* and what each evaluates to, the left one from the environment the       *)
(* statement started in, the right one from what the left one left behind. *)
(***************************************************************************)
EvalIsBinary(ops) ==
    evalNode.tt = "Cons" /\ evalNode.op \in ops /\ Len(evalNode.children) = 2

LeftRes == eval_expr(evalNode.children[1], evalEnv)
RightRes == eval_expr(evalNode.children[2], LeftRes.env)
Returned == stack # <<>> /\ stack[1].st = "ret"

\* The last evaluation was an `and` / `or` whose left value decides the result.
ShortCircuits ==
    \/ EvalIsBinary({"And"}) /\ ~is_truthy(LeftRes.val)
    \/ EvalIsBinary({"Or"}) /\ is_truthy(LeftRes.val)

(***************************************************************************)
(* C2: `l and r` with a falsy l, and `l or r` with a truthy l, never       *)
(* evaluate r: the environment afterwards is the one l left behind, the    *)
(* only assignments made are those of l, and the result is the value of l. *)
(***************************************************************************)
C2_ShortCircuit ==
    ShortCircuits =>
        /\ env = LeftRes.env
        /\ evalLog = LeftRes.log
        /\ evalVal = LeftRes.val

\* A short-circuited right operand whose evaluation would have changed x.
C2_Witness ==
    /\ Returned
    /\ ShortCircuits
    /\ evalNode.children[2] \in Effects
    /\ RightRes.env # LeftRes.env
    /\ env = LeftRes.env

\* What `==` gave on the operands of the last `==` or `!=`.
EqResult == IF evalNode.op = "EqualEqual" THEN evalVal ELSE Bool(~evalVal.b)

C3_Symmetric == EqualValues(LeftRes.val, RightRes.val) = EqualValues(RightRes.val, LeftRes.val)

C3_CrossVariant == LeftRes.val.t # RightRes.val.t => EqResult = Bool(FALSE)

C3_Negation ==
    evalNode.op = "BangEqual" =>
        evalVal = Bool(eval_expr(Cons("EqualEqual", evalNode.children), evalEnv).val = Bool(FALSE))

(***************************************************************************)
(* C3 as stated: `==` is reflexive and symmetric on same-variant values,   *)
(* Bool(false) on values of differing variants, and `!=` is its negation.  *)
(***************************************************************************)
C3_EqualityOriginal ==
    EvalIsBinary({"EqualEqual", "BangEqual"}) =>
        /\ evalVal.t = "Bool"
        /\ LeftRes.val = RightRes.val => EqResult = Bool(TRUE)
        /\ C3_Symmetric
        /\ C3_CrossVariant
        /\ C3_Negation

(***************************************************************************)
(* C3 amended: as C3, but `==` is reflexive on every value except the      *)
(* number NaN, for which `x == x` is Bool(false) and `x != x` Bool(true).  *)
(***************************************************************************)
C3_Equality ==
    EvalIsBinary({"EqualEqual", "BangEqual"}) =>
        /\ evalVal.t = "Bool"
        /\ LeftRes.val = RightRes.val =>
              EqResult = Bool(LeftRes.val # Number(NaN))
        /\ C3_Symmetric
        /\ C3_CrossVariant
        /\ C3_Negation

\* x == x was evaluated with x the number NaN, and gave false.
C3_Witness ==
    /\ Returned
    /\ evalNode = Cons("EqualEqual", <<X, X>>)
    /\ LeftRes.val = Number(NaN) /\ RightRes.val = Number(NaN)
    /\ evalVal = Bool(FALSE)

\* The display forms, as the claim words them.
HasNoFraction(n) == n.cls = "inf" \/ (n.cls = "fin" /\ n.mag % Quantum = 0)

DisplayForm(v) ==
    CASE v.t = "String" -> v.s
      [] v.t = "Nil" -> <<"n", "i", "l">>
      [] v.t = "Bool" /\ v.b -> <<"t", "r", "u", "e">>
      [] v.t = "Bool" /\ ~v.b -> <<"f", "a", "l", "s", "e">>
      [] v.t = "Number" /\ HasNoFraction(v.n) -> F64ToString(v.n) \o <<".", "0">>
      [] v.t = "Number" /\ ~HasNoFraction(v.n) -> F64ToString(v.n)

(***************************************************************************)
(* C4: a + b is Number(a + b) on two numbers; the concatenation of the two *)
(* operands when at least one is a String, the other one in its display    *)
(* form ("nil", "true" / "false", the number with ".0" appended when it    *)
(* has no fractional part); Nil otherwise.  "a" + 1 is a1.0.               *)
(***************************************************************************)
C4_Addition ==
    EvalIsBinary({"Plus"}) =>
        LET a == LeftRes.val
            b == RightRes.val
        IN  /\ (a.t = "Number" /\ b.t = "Number") => evalVal = Number(F64Add(a.n, b.n))
            /\ (a.t = "String" \/ b.t = "String") =>
                  evalVal = String(DisplayForm(a) \o DisplayForm(b))
            /\ (~(a.t = "Number" /\ b.t = "Number") /\ a.t # "String" /\ b.t # "String") =>
                  evalVal = Nil
            /\ (a = String(<<"a">>) /\ b = Number(Lit(1))) =>
                  evalVal = String(<<"a", "1", ".", "0">>)

\* A number with a fractional part was appended to a string, without ".0".
C4_Witness ==
    /\ Returned
    /\ EvalIsBinary({"Plus"})
    /\ LeftRes.val = String(<<"a">>)
    /\ RightRes.val.t = "Number" /\ ~HasNoFraction(RightRes.val.n) /\ ~IsNaN(RightRes.val.n)
    /\ evalVal = String(<<"a">> \o F64ToString(RightRes.val.n))

(***************************************************************************)
(* C5: a / b is Nil when b is the number zero, whatever number a is;       *)
(* Number(a / b) on two numbers with a non-zero divisor; Nil when an       *)
(* operand is not a number.                                                *)
(***************************************************************************)
C5_Division ==
    EvalIsBinary({"Slash"}) =>
        LET a == LeftRes.val
            b == RightRes.val
        IN  IF a.t = "Number" /\ b.t = "Number"
            THEN IF IsZero(b.n) THEN evalVal = Nil
                 ELSE evalVal = Number(F64Div(a.n, b.n))
            ELSE evalVal = Nil

\* A non-zero number was divided by negative zero.
C5_Witness ==
    /\ Returned
    /\ EvalIsBinary({"Slash"})
    /\ LeftRes.val.t = "Number" /\ ~IsZero(LeftRes.val.n) /\ ~IsNaN(LeftRes.val.n)
    /\ RightRes.val = Number(Fin(TRUE, 0))
    /\ evalVal = Nil

(***************************************************************************)
(* C10: every arithmetic, relational and equality operator (`!=` too)      *)
(* evaluates its left operand, then its right operand in the environment   *)
(* the left one left behind, each exactly once: the assignments made are   *)
(* those of the left operand followed by those of the right operand, and   *)
(* the environment afterwards is the one the right operand left behind.    *)
(***************************************************************************)
C10_OperandOrder ==
    EvalIsBinary(StrictOps \cup {"BangEqual"}) =>
        /\ evalLog = LeftRes.log \o RightRes.log
        /\ env = RightRes.env
        /\ evalVal = IF evalNode.op = "BangEqual"
                     THEN Bool(~EqualValues(LeftRes.val, RightRes.val))
                     ELSE ApplyStrict(evalNode.op, LeftRes.val, RightRes.val)

\* (x = 1) != (x = x + 1): the right operand saw the 1 and left 2 behind.
C10_Witness ==
    /\ Returned
    /\ evalNode = Cons("BangEqual", <<Cons("Assign", <<X, AtomNumber(Lit(1))>>),
                                      Cons("Assign", <<X, Cons("Plus", <<X, AtomNumber(Lit(1))>>)>>)>>)
    /\ evalLog = <<<<"x", Number(Lit(1))>>, <<"x", Number(Lit(2))>>>>
    /\ env["x"] = Number(Lit(2))
    /\ evalVal = Bool(TRUE)

(***************************************************************************)
(* SpecRun: eval_program on a fresh Interpreter, for each of Programs.     *)
(* The interpreter is one thread that runs to completion, so a step that   *)
(* can be taken is taken (weak fairness of the next-state relation).       *)
(***************************************************************************)
Num(n) == AtomNumber(Lit(n))
Id(name) == AtomIdent(name)
Str(s) == AtomString(s)
Bin(op, l, r) == Cons(op, <<l, r>>)
Paren(e) == Cons("Group", <<e>>)
Assign(name, e) == Cons("Assign", <<Id(name), e>>)
Var(name, e) == Cons("Var", <<Id(name), e>>)
PrintStmt(e) == Cons("Print", <<e>>)
While(c, b) == Cons("While", <<c, b>>)
Block(stmts) == Cons("Group", stmts)
Incr(name) == Assign(name, Bin("Plus", Id(name), Num(1)))

\* var x = 1; while (x < 4) { print x; x = x + 1; }
ScenarioA ==
    <<Var("x", Num(1)),
      While(Paren(Bin("Less", Id("x"), Num(4))), Block(<<PrintStmt(Id("x")), Incr("x")>>))>>

\* while (false) print 1; print "a";
ProgNever == <<While(AtomBool(FALSE), PrintStmt(Num(1))), PrintStmt(Str(<<"a">>))>>

\* var i = 0; while (i < 2) { var j = 0; while (j < 2) j = j + 1; i = i + 1; }
ProgNested ==
    <<Var("i", Num(0)),
      While(Paren(Bin("Less", Id("i"), Num(2))),
            Block(<<Var("j", Num(0)),
                    While(Paren(Bin("Less", Id("j"), Num(2))), Incr("j")),
                    Incr("i")>>))>>

\* var n = 0; while (n) n = nil; var s = ""; while (s) s = false; print s;
ProgTruthy ==
    <<Var("n", Num(0)), While(Id("n"), Assign("n", AtomNil)),
      Var("s", Str(<<>>)), While(Id("s"), Assign("s", AtomBool(FALSE))),
      PrintStmt(Id("s"))>>

\* var x = 0; while ((x = x + 1) < 3) print x;
ProgCondEffect ==
    <<Var("x", Num(0)),
      While(Paren(Bin("Less", Paren(Incr("x")), Num(3))), PrintStmt(Id("x")))>>

\* var x = 0; while (true) x = x + 1;
ProgForever == <<Var("x", Num(0)), While(AtomBool(TRUE), Incr("x"))>>

\* var x = 1; { var x = 2; { y = x + 1; } }
\* if (x == 2) { var z = "a"; } else { var z = "b"; }
\* while (!w) { var w = true; x = "b"; }
\* print x; print y; print z; print w;
ProgScope ==
    <<Var("x", Num(1)),
      Block(<<Var("x", Num(2)), Block(<<Assign("y", Bin("Plus", Id("x"), Num(1)))>>)>>),
      IfNode(Paren(Bin("EqualEqual", Id("x"), Num(2))),
             Block(<<Var("z", Str(<<"a">>))>>), <<Block(<<Var("z", Str(<<"b">>))>>)>>),
      While(Paren(Cons("Bang", <<Id("w")>>)),
            Block(<<Var("w", AtomBool(TRUE)), Assign("x", Str(<<"b">>))>>)),
      PrintStmt(Id("x")), PrintStmt(Id("y")), PrintStmt(Id("z")), PrintStmt(Id("w"))>>

\* Statements that match no arm of exec as written, and an if with no else.
ProgMalformed ==
    <<Cons("While", <<AtomBool(TRUE)>>), Cons("Var", <<Id("x")>>), Cons("Print", <<>>),
      IfNode(AtomNil, PrintStmt(Num(1)), <<>>),
      IfNode(Id("x"), PrintStmt(Num(1)), <<PrintStmt(Num(0))>>),
      FunNode, PrintStmt(Bin("Slash", Num(1), Num(2)))>>

Programs ==
    {ScenarioA, ProgNever, ProgNested, ProgTruthy, ProgCondEffect, ProgForever, ProgScope,
     ProgMalformed}

InitRun ==
    /\ InitInterp
    /\ \E stmts \in Programs : program = [stmts |-> stmts, next |-> 1]
    /\ InitMainIdle
    /\ InitTokIdle

NextRun ==
    \/ NextStmt
    \/ ExecGroup
    \/ ExecIf
    \/ ExecVar
    \/ ExecPrint
    \/ ExecWhile
    \/ ExecOther
    \/ Return

SpecRun == InitRun /\ [][NextRun]_vars /\ WF_vars(NextRun)

\* The while loops that have run their body at least once and are not left.
LoopsInProgress == Cardinality({i \in 1..Len(stack) : stack[i].st = "loop"})

BodyPending == IF stack # <<>> /\ stack[1].role = "body" /\ stack[1].st = "enter" THEN 1 ELSE 0

\* The loop-top evaluations and the runs of the bodies, counted over a run.
C1_Counts ==
    /\ whileStats.truthy = whileStats.body + BodyPending
    /\ whileStats.entered = whileStats.falsy + LoopsInProgress
    /\ Done => (whileStats.truthy = whileStats.body /\ whileStats.falsy = whileStats.entered)

\* Scenario A has ended: three lines, three runs of the body, one falsy evaluation.
ScenarioADone ==
    /\ Done
    /\ program.stmts = ScenarioA
    /\ out = <<<<"1", ".", "0">>, <<"2", ".", "0">>, <<"3", ".", "0">>>>
    /\ whileStats = [entered |-> 1, truthy |-> 3, falsy |-> 1, body |-> 3]

(***************************************************************************)
(* C1: a while loop evaluates its condition before each run of its body,   *)
(* runs the body once per truthy evaluation, and is left at the first      *)
(* falsy one; scenario A runs its body 3 times, prints 1.0, 2.0, 3.0 and   *)
(* terminates.                                                             *)
(***************************************************************************)
C1_While ==
    /\ [](C1_Counts)
    /\ [](program.stmts = ScenarioA /\ Done => ScenarioADone)
    /\ (program.stmts = ScenarioA) ~> ScenarioADone

C1_Witness == ScenarioADone

\* The environment holds, for every name ever written, the last value written.
C6_LastWrite ==
    /\ DOMAIN env = DOMAIN lastWritten
    /\ \A n \in DOMAIN env : env[n] = lastWritten[n].val

(***************************************************************************)
(* C6: one flat environment: every name holds the last value written to it *)
(* by a var declaration or an assignment, at whatever depth it was         *)
(* written, and no binding is ever removed.                                *)
(***************************************************************************)
C6_FlatEnv ==
    /\ [](C6_LastWrite)
    /\ [][DOMAIN env \subseteq DOMAIN env']_vars

\* The program is over, and x still holds what a block inside a while body
\* wrote over its earlier binding.
C6_Witness ==
    /\ Done
    /\ program.stmts = ProgScope
    /\ lastWritten["x"].depth >= 2 /\ lastWritten["x"].over
    /\ env["x"] = String(<<"b">>)
    /\ env["y"] = Number(Lit(3))
    /\ out = <<<<"b">>, <<"3", ".", "0">>, <<"a">>, <<"t", "r", "u", "e">>>>

(***************************************************************************)
(* translate_file_contents.  A char of the text is written as the name of  *)
(* its code point ("u0938" is U+0938) or as itself when it is ASCII.  The  *)
(* table is a HashMap with the default hasher: its iteration order is not  *)
(* fixed, so the replacements are applied in any order.                    *)
(***************************************************************************)
\* translator.rs:8  -> "class"
Shreni == [from |-> <<"u0936", "u094D", "u0930", "u0947", "u0923", "u0940">>,
           to |-> <<"c", "l", "a", "s", "s">>]

\* translator.rs:9  -> "else"
Athva == [from |-> <<"u0905", "u0925", "u094D", "u0935", "u093E">>,
          to |-> <<"e", "l", "s", "e">>]

\* translator.rs:10  -> "false"
Asatya == [from |-> <<"u0905", "u0938", "u0924", "u094D", "u092F">>,
           to |-> <<"f", "a", "l", "s", "e">>]

\* translator.rs:11  -> "for"
Pura == [from |-> <<"u092A", "u0941", "u0930", "u093E">>,
         to |-> <<"f", "o", "r">>]

\* translator.rs:12  -> "fun"
Viniyoga == [from |-> <<"u0935", "u093F", "u0928", "u093F", "u092F", "u094B", "u0917">>,
             to |-> <<"f", "u", "n">>]

\* translator.rs:13  -> "if"
Yadi == [from |-> <<"u092F", "u0926", "u093F">>,
         to |-> <<"i", "f">>]

\* translator.rs:14  -> "nil"
Neti == [from |-> <<"u0928", "u0947", "u0924", "u093F">>,
         to |-> <<"n", "i", "l">>]

\* translator.rs:15  -> "or"
Vikalpa == [from |-> <<"u0935", "u093F", "u0915", "u0932", "u094D", "u092A">>,
            to |-> <<"o", "r">>]

\* translator.rs:16  -> "print"
Kathaya == [from |-> <<"u0915", "u0925", "u092F">>,
            to |-> <<"p", "r", "i", "n", "t">>]

\* translator.rs:17  -> "return"
Deyam == [from |-> <<"u0926", "u0947", "u092F", "u092E">>,
          to |-> <<"r", "e", "t", "u", "r", "n">>]

\* translator.rs:18  -> "super"
Maha == [from |-> <<"u092E", "u0939", "u093E">>,
         to |-> <<"s", "u", "p", "e", "r">>]

\* translator.rs:19  -> "this"
Yaha == [from |-> <<"u092F", "u0939">>,
         to |-> <<"t", "h", "i", "s">>]

\* translator.rs:20  -> "true"
Satya == [from |-> <<"u0938", "u0924", "u094D", "u092F">>,
          to |-> <<"t", "r", "u", "e">>]

\* translator.rs:21  -> "var"
Chara == [from |-> <<"u091A", "u0930">>,
          to |-> <<"v", "a", "r">>]

\* translator.rs:22  -> "while"
Yavad == [from |-> <<"u092F", "u093E", "u0935", "u0926">>,
          to |-> <<"w", "h", "i", "l", "e">>]

Replacements ==
    {Shreni, Athva, Asatya, Pura, Viniyoga, Yadi, Neti, Vikalpa,
     Kathaya, Deyam, Maha, Yaha, Satya, Chara, Yavad}

StartsWith(s, prefix) == Len(s) >= Len(prefix) /\ SubSeq(s, 1, Len(prefix)) = prefix

\* str::replace: every non-overlapping match of from, left to right.
RECURSIVE Replace(_, _, _)
Replace(s, from, to) ==
    IF Len(s) < Len(from) THEN s
    ELSE IF StartsWith(s, from) THEN to \o Replace(SubSeq(s, Len(from) + 1, Len(s)), from, to)
    ELSE <<s[1]>> \o Replace(Tail(s), from, to)

(***************************************************************************)
(* main: the three commands, from the file being read to the text being    *)
(* handed to the Lexer or the Parser.                                      *)
(***************************************************************************)
\* The files read: each keyword of the table, alone.
FileInputs == {entry.from : entry \in Replacements}

\* Commands::Tokenize: Lexer::new(&file_contents)
TokenizeStart ==
    /\ mode = "tokenize" /\ pc = "read"
    /\ fed' = contents
    /\ pc' = "lexing"
    /\ UNCHANGED <<mode, contents, pending, output, interpVars, evalVars, tokVars>>

\* Commands::Parse: Parser::new(&file_contents)
ParseStart ==
    /\ mode = "parse" /\ pc = "read"
    /\ fed' = contents
    /\ pc' = "parsing"
    /\ UNCHANGED <<mode, contents, pending, output, interpVars, evalVars, tokVars>>

\* Commands::Run: translate_file_contents(&file_contents) is entered.
TranslateBegin ==
    /\ mode = "run" /\ pc = "read"
    /\ pending' = Replacements
    /\ output' = contents
    /\ pc' = "translate"
    /\ UNCHANGED <<mode, contents, fed, interpVars, evalVars, tokVars>>

\* for (from, to) in replacements { output = output.replace(from, to); }
TranslateStep ==
    /\ pc = "translate"
    /\ \E entry \in pending :
          /\ output' = Replace(output, entry.from, entry.to)
          /\ pending' = pending \ {entry}
    /\ UNCHANGED <<mode, pc, contents, fed, interpVars, evalVars, tokVars>>

\* Commands::Run: Parser::new(&translated_contents)
RunParse ==
    /\ pc = "translate" /\ pending = {}
    /\ fed' = output
    /\ pc' = "parsing"
    /\ UNCHANGED <<mode, contents, pending, output, interpVars, evalVars, tokVars>>

InitMain ==
    /\ mode \in {"tokenize", "parse", "run"}
    /\ pc = "read"
    /\ contents \in FileInputs
    /\ pending = {}
    /\ output = <<>>
    /\ fed = <<>>
    /\ InitInterp
    /\ program = [stmts |-> <<>>, next |-> 1]
    /\ InitTokIdle

NextMain ==
    \/ TokenizeStart
    \/ ParseStart
    \/ TranslateBegin
    \/ TranslateStep
    \/ RunParse

SpecMain == InitMain /\ [][NextMain]_vars

(***************************************************************************)
(* C8: for every entry (from, to) of the table, translating the text from  *)
(* yields exactly to, whatever the order of the replacements.              *)
(***************************************************************************)
C8_TranslatesKeyword ==
    (mode = "run" /\ pc = "parsing") =>
        \A entry \in Replacements : contents = entry.from => fed = entry.to

\* The word w occurs in the text s.
Occurs(s, w) == \E i \in 1..Len(s) : StartsWith(SubSeq(s, i, Len(s)), w)

ContainsKeyword(s) == \E entry \in Replacements : Occurs(s, entry.from)

(***************************************************************************)
(* C9: in every command, the text handed to the Lexer / Parser is the      *)
(* output of the translation of the file contents: it holds no             *)
(* alternate-script keyword of the table.                                  *)
(***************************************************************************)
C9_AlwaysTranslated ==
    pc \in {"lexing", "parsing"} => (fed = output /\ ~ContainsKeyword(fed))

(***************************************************************************)
(* main (Commands::Tokenize): the loop over the results of the Lexer.      *)
(* The Lexer yields tokens and two kinds of errors: an unexpected          *)
(* character (SingleTokenError) and an unterminated string                 *)
(* (StringTerminationError).                                               *)
(***************************************************************************)
Tokens == {"T1", "T2"}
LexErrors == {"SingleTokenError", "StringTerminationError"}
LexResults == [ok : {TRUE}, item : Tokens] \cup [ok : {FALSE}, item : LexErrors]

RECURSIVE SeqsUpTo(_, _)
SeqsUpTo(S, n) ==
    IF n = 0 THEN {<<>>}
    ELSE LET shorter == SeqsUpTo(S, n - 1)
         IN  shorter \cup {Append(q, x) : q \in {p \in shorter : Len(p) = n - 1}, x \in S}

LexStreams == SeqsUpTo(LexResults, MaxStream)

EofLine == "EOF  null"

\* TokenizeStep without the branch for an unterminated string.
TokenizeStepOneKind ==
    /\ pc = "lexing" /\ stream.next <= Len(stream.items)
    /\ LET token == stream.items[stream.next]
       IN  IF token.ok
           THEN /\ printed' = Append(printed, token.item)
                /\ UNCHANGED <<errs, any_cc_err>>
           ELSE /\ errs' = errs + 1
                /\ any_cc_err' = (any_cc_err \/ token.item = "SingleTokenError")
                /\ UNCHANGED printed
    /\ stream' = [stream EXCEPT !.next = @ + 1]
    /\ UNCHANGED <<exitCode, mainVars, interpVars, evalVars>>

\* One turn of `for token in Lexer::new(..)`.
TokenizeStep ==
    /\ pc = "lexing" /\ stream.next <= Len(stream.items)
    /\ LET token == stream.items[stream.next]
       IN  IF token.ok
           THEN /\ printed' = Append(printed, token.item)
                /\ UNCHANGED <<errs, any_cc_err>>
           ELSE /\ errs' = errs + 1
                /\ any_cc_err' = IF token.item = "SingleTokenError" THEN TRUE
                                 ELSE IF token.item = "StringTerminationError" THEN TRUE
                                 ELSE any_cc_err
                /\ UNCHANGED printed
    /\ stream' = [stream EXCEPT !.next = @ + 1]
    /\ UNCHANGED <<exitCode, mainVars, interpVars, evalVars>>

\* The stream is over: println!("EOF  null"), then exit(65) or Ok(()).
TokenizeFinish ==
    /\ pc = "lexing" /\ stream.next > Len(stream.items)
    /\ printed' = Append(printed, EofLine)
    /\ exitCode' = IF any_cc_err THEN 65 ELSE 0
    /\ pc' = "exit"
    /\ UNCHANGED <<stream, errs, any_cc_err, mode, contents, pending, output, fed,
                   interpVars, evalVars>>

InitTokenize ==
    /\ mode = "tokenize"
    /\ pc = "lexing"
    /\ contents = <<>>
    /\ pending = {}
    /\ output = <<>>
    /\ fed = <<>>
    /\ \E items \in LexStreams : stream = [items |-> items, next |-> 1]
    /\ printed = <<>>
    /\ errs = 0
    /\ any_cc_err = FALSE
    /\ exitCode = -1
    /\ InitInterp
    /\ program = [stmts |-> <<>>, next |-> 1]

NextTokenize == TokenizeStep \/ TokenizeFinish

SpecTokenize == InitTokenize /\ [][NextTokenize]_vars

\* The lines the tokens of a stream print, in order.
IsOk(r) == r.ok

TokensOf(items) ==
    LET oks == SelectSeq(items, IsOk)
    IN  [i \in 1..Len(oks) |-> oks[i].item]

Consumed == SubSeq(stream.items, 1, stream.next - 1)

(***************************************************************************)
(* C7: in tokenize mode an error never stops the loop (every token is      *)
(* printed, in stream order), EOF  null is printed exactly once, after the *)
(* last token, and the exit status is 65 if and only if the stream yielded *)
(* at least one error (and success otherwise).                             *)
(***************************************************************************)
C7_Tokenize ==
    /\ pc = "lexing" => (printed = TokensOf(Consumed) /\ exitCode = -1)
    /\ errs = Len(Consumed) - Len(TokensOf(Consumed))
    /\ pc = "exit" =>
          /\ printed = TokensOf(stream.items) \o <<EofLine>>
          /\ exitCode = 65 <=> (\E i \in 1..Len(stream.items) : ~stream.items[i].ok)
          /\ exitCode \in {0, 65}

\* An unterminated string, then a token: the token was printed, then EOF,
\* and the status is 65.
C7_Witness ==
    /\ pc = "exit"
    /\ Len(stream.items) >= 2
    /\ stream.items[1] = [ok |-> FALSE, item |-> "StringTerminationError"]
    /\ \A i \in 2..Len(stream.items) : stream.items[i].ok
    /\ printed = TokensOf(stream.items) \o <<EofLine>>
    /\ exitCode = 65

====
